---- MODULE Spec2Model ----
(***************************************************************************)
(* Value model of the NEAR light client circuits (nearx/src/variables.rs)  *)
(* and of the erasure coder (src/erasure.rs): header hashing and the two   *)
(* header encodings, the account-id codec, the fixed-capacity validator    *)
(* set and approval record, the validator-set hash, the endorsement        *)
(* message, the stake threshold, Merkle path verification, the synced      *)
(* state, the transaction-or-receipt id encoding, and Reed-Solomon shards  *)
(* with their Merkle commitment.  Every operation is a pure function of    *)
(* its input, so the state machine is "one call at a time": an action      *)
(* draws an input, applies the operation as the code computes it and       *)
(* records the outcome.  A call that works on the outcome of the call      *)
(* before it (hashing the validators of a converted block, dropping a      *)
(* shard of an encoded payload, recovering from the shards left) is an     *)
(* action enabled after that call.                                         *)
(*                                                                         *)
(*   call : the operation applied last                                     *)
(*   arg  : its input                                                      *)
(*   ret  : its outcome, [ok |-> TRUE, val |-> v] when it returned v and   *)
(*          [ok |-> FALSE, val |-> <<>>] when it panicked                  *)
(*                                                                         *)
(* Numbers wider than 31 bits are held as 16-bit limbs, least significant  *)
(* limb first (a u64 is four limbs, a u128 eight, a U256 sixteen), so that *)
(* byte conversions and carries are computed rather than assumed.  A       *)
(* 32-byte hash, key or account buffer is a sequence of bytes.  SHA-256 is *)
(* an injective constructor <<"sha256", message>>.  The Reed-Solomon code  *)
(* is computed: a shard is a sequence of bytes, two per symbol of          *)
(* GF(2^16), and decoding interpolates from the slots that are present.    *)
(***************************************************************************)
EXTENDS Integers, Sequences, FiniteSets, TLC

VARIABLES call, arg, ret

vars == <<call, arg, ret>>

----------------------------------------------------------------------------
(* Bounds of the model                                                     *)

\* seat capacity of the validator set and the approval record
NUM_BLOCK_PRODUCER_SEATS == 3

\* how many entries past the seat capacity an input list may carry
MaxExtra == 2

----------------------------------------------------------------------------
(* Program constants                                                       *)

INNER_ENCODED_LEN == 208

HEADER_ENCODED_LEN == 64 + INNER_ENCODED_LEN

\* AccountId::MAX_LEN
MAX_LEN == 64

\* ACCOUNT_DATA_SEPARATOR, the byte b','
ACCOUNT_ID_PADDING_BYTE == 44

----------------------------------------------------------------------------
(* Results: a returned value or a panic                                    *)

Ok(v) == [ok |-> TRUE, val |-> v]

Panic == [ok |-> FALSE, val |-> <<>>]

----------------------------------------------------------------------------
(* Bytes, integers and hashes                                              *)

Byte == 0..255

Rep(b, n) == [i \in 1..n |-> b]

Slice(s, from, to) == [i \in 1..(to - from) |-> s[from + i]]

\* to_le_bytes of u64 and u128: limb k gives bytes 2k-1 (low) and 2k (high)
to_le_bytes(v) ==
  [i \in 1..(2 * Len(v)) |-> IF i % 2 = 1 THEN v[(i + 1) \div 2] % 256
                                          ELSE v[i \div 2] \div 256]

\* U64Variable::encode_value of plonky2x: big-endian, as the EVM lays it out
U64_encode_value(v) == [i \in 1..8 |-> to_le_bytes(v)[9 - i]]

\* U64Variable::decode_value of plonky2x: from big-endian bytes
U64_decode_value(b) == [k \in 1..4 |-> b[10 - 2 * k] + 256 * b[9 - 2 * k]]

\* Bytes32Variable::encode_value / decode_value: the 32 bytes as they are
Bytes32_encode_value(h) == [i \in 1..32 |-> h[i]]

Bytes32_decode_value(b) == [i \in 1..32 |-> b[i]]

\* SHA-256 of a byte string
curta_sha256(bytes) == <<"sha256", bytes>>

\* SHA-256 of left || right, two 32-byte values
curta_sha256_pair(left, right) == <<"sha256", <<left, right>>>>

----------------------------------------------------------------------------
(* Header: canonical encoding, hash, transport encoding                    *)

\* the mutated hint: epoch_id and next_epoch_id change places
EncodeInner_Reordered(inner) ==
  to_le_bytes(inner.height) \o inner.next_epoch_id \o inner.epoch_id
    \o inner.prev_state_root \o inner.outcome_root
    \o to_le_bytes(inner.timestamp) \o inner.next_bp_hash
    \o inner.block_merkle_root

\* EncodeInner::hint: the borsh bytes of the inner header
EncodeInner(inner) ==
  to_le_bytes(inner.height) \o inner.epoch_id \o inner.next_epoch_id
    \o inner.prev_state_root \o inner.outcome_root
    \o to_le_bytes(inner.timestamp) \o inner.next_bp_hash
    \o inner.block_merkle_root

\* HeaderInnerVariable::encode_borsh: the hint's output read back
encode_borsh(inner) == EncodeInner(inner)

\* HeaderInnerVariable::hash
HeaderInnerVariable_hash(inner) == curta_sha256(encode_borsh(inner))

\* the mutated hash: inner_rest_hash paired on the left
HeaderVariable_hash_Flipped(h) ==
  LET inner_lite == HeaderInnerVariable_hash(h.inner_lite)
      lite_rest  == curta_sha256_pair(h.inner_rest_hash, inner_lite)
  IN  curta_sha256_pair(lite_rest, h.prev_block_hash)

\* HeaderVariable::hash
HeaderVariable_hash(h) ==
  LET inner_lite == HeaderInnerVariable_hash(h.inner_lite)
      lite_rest  == curta_sha256_pair(inner_lite, h.inner_rest_hash)
  IN  curta_sha256_pair(lite_rest, h.prev_block_hash)

\* the mutated encoding: the integers little-endian, as in the borsh bytes
HeaderInnerVariable_encode_value_LE(v) == EncodeInner(v)

\* HeaderInnerVariable::encode_value (its length assertion always holds)
HeaderInnerVariable_encode_value(v) ==
  U64_encode_value(v.height) \o Bytes32_encode_value(v.epoch_id)
    \o Bytes32_encode_value(v.next_epoch_id)
    \o Bytes32_encode_value(v.prev_state_root)
    \o Bytes32_encode_value(v.outcome_root)
    \o U64_encode_value(v.timestamp)
    \o Bytes32_encode_value(v.next_bp_hash)
    \o Bytes32_encode_value(v.block_merkle_root)

\* the mutated decoder: no length assertion, missing bytes read as zero
HeaderInnerVariable_decode_value_Lenient(bytes) ==
  LET b == [i \in 1..INNER_ENCODED_LEN |->
              IF i <= Len(bytes) THEN bytes[i] ELSE 0]
  IN  Ok([height            |-> U64_decode_value(Slice(b, 0, 8)),
          epoch_id          |-> Bytes32_decode_value(Slice(b, 8, 40)),
          next_epoch_id     |-> Bytes32_decode_value(Slice(b, 40, 72)),
          prev_state_root   |-> Bytes32_decode_value(Slice(b, 72, 104)),
          outcome_root      |-> Bytes32_decode_value(Slice(b, 104, 136)),
          timestamp         |-> U64_decode_value(Slice(b, 136, 144)),
          next_bp_hash      |-> Bytes32_decode_value(Slice(b, 144, 176)),
          block_merkle_root |->
            Bytes32_decode_value(Slice(b, 176, INNER_ENCODED_LEN))])

\* HeaderInnerVariable::decode_value
HeaderInnerVariable_decode_value(bytes) ==
  IF Len(bytes) # INNER_ENCODED_LEN THEN Panic
  ELSE Ok([height            |-> U64_decode_value(Slice(bytes, 0, 8)),
           epoch_id          |-> Bytes32_decode_value(Slice(bytes, 8, 40)),
           next_epoch_id     |-> Bytes32_decode_value(Slice(bytes, 40, 72)),
           prev_state_root   |-> Bytes32_decode_value(Slice(bytes, 72, 104)),
           outcome_root      |-> Bytes32_decode_value(Slice(bytes, 104, 136)),
           timestamp         |-> U64_decode_value(Slice(bytes, 136, 144)),
           next_bp_hash      |-> Bytes32_decode_value(Slice(bytes, 144, 176)),
           block_merkle_root |->
             Bytes32_decode_value(Slice(bytes, 176, INNER_ENCODED_LEN))])

\* HeaderVariable::encode_value (its length assertion always holds)
HeaderVariable_encode_value(value) ==
  Bytes32_encode_value(value.prev_block_hash)
    \o Bytes32_encode_value(value.inner_rest_hash)
    \o HeaderInnerVariable_encode_value(value.inner_lite)

\* the mutated decoder: the two leading hashes change places
HeaderVariable_decode_value_Crossed(bytes) ==
  IF Len(bytes) # HEADER_ENCODED_LEN THEN Panic
  ELSE LET inner_lite ==
             HeaderInnerVariable_decode_value(Slice(bytes, 64, Len(bytes)))
       IN  Ok([prev_block_hash |-> Bytes32_decode_value(Slice(bytes, 32, 64)),
               inner_rest_hash |-> Bytes32_decode_value(Slice(bytes, 0, 32)),
               inner_lite      |-> inner_lite.val])

\* HeaderVariable::decode_value
HeaderVariable_decode_value(bytes) ==
  IF Len(bytes) # HEADER_ENCODED_LEN THEN Panic
  ELSE LET inner_lite ==
             HeaderInnerVariable_decode_value(Slice(bytes, 64, Len(bytes)))
       IN  IF ~inner_lite.ok THEN Panic
           ELSE Ok([prev_block_hash |->
                      Bytes32_decode_value(Slice(bytes, 0, 32)),
                    inner_rest_hash |->
                      Bytes32_decode_value(Slice(bytes, 32, 64)),
                    inner_lite      |-> inner_lite.val])

----------------------------------------------------------------------------
(* Account-id codec                                                        *)

\* 'a'..'z' and '0'..'9'
IsAlnum(c) == (c >= 97 /\ c <= 122) \/ (c >= 48 /\ c <= 57)

\* '-', '.', '_'
IsSeparator(c) == c \in {45, 46, 95}

\* AccountId::validate (str::parse::<AccountId>): 2 to 64 characters, each a
\* lower-case letter, a digit or a separator, no separator first, last or
\* next to another
IsLegalAccountId(a) ==
  /\ Len(a) >= 2
  /\ Len(a) <= MAX_LEN
  /\ \A i \in 1..Len(a) : IsAlnum(a[i]) \/ IsSeparator(a[i])
  /\ ~IsSeparator(a[1])
  /\ ~IsSeparator(a[Len(a)])
  /\ \A i \in 1..(Len(a) - 1) : ~(IsSeparator(a[i]) /\ IsSeparator(a[i + 1]))

\* Vec::resize(new_len, value): cuts the tail off or appends copies of value
resize(v, new_len, value) ==
  [i \in 1..new_len |-> IF i <= Len(v) THEN v[i] ELSE value]

\* the mutated padding: zero bytes where the separator belongs
pad_account_bytes_ZeroFill(account_id) == Ok(resize(account_id, MAX_LEN, 0))

\* pad_account_bytes: after the resize the conversion to [u8; MAX_LEN]
\* cannot fail
pad_account_bytes(account_id) ==
  LET resized == resize(account_id, MAX_LEN, ACCOUNT_ID_PADDING_BYTE)
  IN  IF Len(resized) = MAX_LEN THEN Ok(resized) ELSE Panic

\* pad_account_id
pad_account_id(account_id) == pad_account_bytes(account_id)

\* the first piece of split(|x| *x == ACCOUNT_ID_PADDING_BYTE)
FirstPiece(buf) ==
  LET stops == { i \in 1..Len(buf) : buf[i] = ACCOUNT_ID_PADDING_BYTE }
      n     == IF stops = {} THEN Len(buf)
               ELSE (CHOOSE i \in stops : \A j \in stops : i <= j) - 1
  IN  [i \in 1..n |-> buf[i]]

\* normalise_account_id: the bytes before the first padding byte, which must
\* be text and parse as an account id
normalise_account_id(account_id) ==
  LET unpadded_bytes == FirstPiece(account_id)
  IN  IF IsLegalAccountId(unpadded_bytes) THEN Ok(unpadded_bytes) ELSE Panic

----------------------------------------------------------------------------
(* Validator set, approval record and block conversion                     *)

\* Option::None and Option::Some
None == [some |-> FALSE, v |-> <<>>]

Some(x) == [some |-> TRUE, v |-> x]

\* CryptoHash::default(): 32 zero bytes
CryptoHash_default == Rep(0, 32)

\* CompressedEdwardsY::default() of curve25519-dalek: the encoding of the
\* identity point, y = 1
CompressedEdwardsY_default == [i \in 1..32 |-> IF i = 1 THEN 1 ELSE 0]

\* ValidatorStakeVariableValue::default
ValidatorStakeVariableValue_default ==
  [account_id |-> Rep(0, MAX_LEN),
   public_key |-> CompressedEdwardsY_default,
   stake      |-> Rep(0, 8)]

\* From<ValidatorStake> for ValidatorStakeVariableValue: unwrap_as_ed25519
\* panics on a key of another scheme
ValidatorStakeVariableValue_from(vs) ==
  IF vs.public_key.kind # "ED25519" THEN Panic
  ELSE Ok([account_id |-> pad_account_id(vs.account_id).val,
           public_key |-> vs.public_key.data,
           stake      |-> vs.stake])

\* bps_to_variable: at most the first NUM_BLOCK_PRODUCER_SEATS validators are
\* converted, then the list is resized to the seat capacity with defaults
bps_to_variable(next_bps) ==
  IF ~next_bps.some
    THEN Ok(Rep(ValidatorStakeVariableValue_default, NUM_BLOCK_PRODUCER_SEATS))
    ELSE LET n == IF Len(next_bps.v) < NUM_BLOCK_PRODUCER_SEATS
                    THEN Len(next_bps.v) ELSE NUM_BLOCK_PRODUCER_SEATS
             converted == [i \in 1..n |->
                             ValidatorStakeVariableValue_from(next_bps.v[i])]
         IN  IF \E i \in 1..n : ~converted[i].ok THEN Panic
             ELSE Ok(resize([i \in 1..n |-> converted[i].val],
                            NUM_BLOCK_PRODUCER_SEATS,
                            ValidatorStakeVariableValue_default))

\* U256::from_little_endian of 32 bytes, as sixteen limbs
U256_from_little_endian(b) ==
  [k \in 1..16 |-> b[2 * k - 1] + 256 * b[2 * k]]

\* SignatureVariableValue::default
SignatureVariableValue_default ==
  [signature |-> [r |-> CompressedEdwardsY_default, s |-> Rep(0, 16)]]

\* From<Option<Box<Signature>>> for SignatureVariableValue: an absent
\* signature and one of another scheme both give the default
SignatureVariableValue_from(sig) ==
  IF sig.kind = "ED25519"
    THEN [signature |->
            [r |-> Slice(sig.bytes, 0, 32),
             s |-> U256_from_little_endian(Slice(sig.bytes, 32, 64))]]
    ELSE SignatureVariableValue_default

\* From<Vec<Option<Box<Signature>>>> for BpsApprovalsValue: is_active is
\* s.is_some(), taken before the signature is converted
BpsApprovalsValue_from(approvals) ==
  LET resized == resize(approvals, NUM_BLOCK_PRODUCER_SEATS,
                        [kind |-> "None", bytes |-> <<>>])
  IN  [is_active  |-> [i \in 1..NUM_BLOCK_PRODUCER_SEATS |->
                         resized[i].kind # "None"],
       signatures |-> [i \in 1..NUM_BLOCK_PRODUCER_SEATS |->
                         SignatureVariableValue_from(resized[i]).signature]]

\* From<BlockHeaderInnerLiteView> for HeaderInnerVariableValue
HeaderInnerVariableValue_from(header) ==
  [height            |-> header.height,
   epoch_id          |-> header.epoch_id,
   next_epoch_id     |-> header.next_epoch_id,
   prev_state_root   |-> header.prev_state_root,
   outcome_root      |-> header.outcome_root,
   timestamp         |-> IF header.timestamp # Rep(0, 4)
                           THEN header.timestamp
                           ELSE header.timestamp_nanosec,
   next_bp_hash      |-> header.next_bp_hash,
   block_merkle_root |-> header.block_merkle_root]

\* From<LightClientBlockView> for HeaderVariableValue
HeaderVariableValue_from(header) ==
  [prev_block_hash |-> header.prev_block_hash,
   inner_rest_hash |-> header.inner_rest_hash,
   inner_lite      |-> HeaderInnerVariableValue_from(header.inner_lite)]

\* borsh of a u32 (lengths here stay below 65536)
BorshU32(n) == <<n % 256, n \div 256, 0, 0>>

\* borsh of a PublicKey: the scheme byte, then the key bytes
BorshPublicKey(pk) ==
  <<IF pk.kind = "ED25519" THEN 0 ELSE 1>> \o pk.data

\* borsh of a ValidatorStakeView: variant V1, account id as a string,
\* public key, stake as a little-endian u128
BorshValidatorStakeView(v) ==
  <<0>> \o BorshU32(Len(v.account_id)) \o v.account_id
    \o BorshPublicKey(v.public_key) \o to_le_bytes(v.stake)

RECURSIVE BorshItems(_)
BorshItems(list) ==
  IF list = <<>> THEN <<>>
  ELSE BorshValidatorStakeView(Head(list)) \o BorshItems(Tail(list))

\* CryptoHash::hash_borsh of a list of validators
hash_borsh(list) ==
  <<"sha256", BorshU32(Len(list)) \o BorshItems(list)>>

\* From<LightClientBlockView> for BlockVariableValue (its three length
\* assertions are stated as C8 below)
BlockVariableValue_from(block) ==
  LET next_bps_hash == IF block.next_bps.some
                         THEN hash_borsh(block.next_bps.v)
                         ELSE CryptoHash_default
      next_bps == bps_to_variable(block.next_bps)
  IN  IF ~next_bps.ok THEN Panic
      ELSE Ok([next_block_inner_hash |-> block.next_block_inner_hash,
               header                |-> HeaderVariableValue_from(block),
               next_bps              |-> next_bps.val,
               approvals_after_next  |->
                 BpsApprovalsValue_from(block.approvals_after_next),
               next_bps_hash         |-> next_bps_hash])

\* From<ValidatorStakeVariableValue> for ValidatorStakeView
ValidatorStakeView_from(val) ==
  LET account_id == normalise_account_id(val.account_id)
  IN  IF ~account_id.ok THEN Panic
      ELSE Ok([account_id |-> account_id.val,
               public_key |-> [kind |-> "ED25519", data |-> val.public_key],
               stake      |-> val.stake])

\* HashBpsInputs::hint: the seats whose account id is not the default one,
\* as validator views, hashed as a list
HashBpsInputs(bps) ==
  LET kept  == SelectSeq(bps, LAMBDA x :
                 x.account_id # ValidatorStakeVariableValue_default.account_id)
      views == [i \in 1..Len(kept) |-> ValidatorStakeView_from(kept[i])]
  IN  IF \E i \in 1..Len(views) : ~views[i].ok THEN Panic
      ELSE Ok(hash_borsh([i \in 1..Len(views) |-> views[i].val]))

----------------------------------------------------------------------------
(* Endorsement message                                                     *)

\* v + n in u64 arithmetic, n small: the limbs of the sum modulo 2^64 and
\* whether the addition overflowed
u64_add(v, n) ==
  LET s1 == v[1] + n
      s2 == v[2] + s1 \div 65536
      s3 == v[3] + s2 \div 65536
      s4 == v[4] + s3 \div 65536
  IN  [wrapped  |-> <<s1 % 65536, s2 % 65536, s3 % 65536, s4 % 65536>>,
       overflow |-> s4 \div 65536 = 1]

\* BuildEndorsement::hint with the target one block ahead instead of two
BuildEndorsement_PlusOne(next_block_hash, next_block_height, overflow_checks) ==
  LET sum == u64_add(next_block_height, 1) IN
  IF sum.overflow /\ overflow_checks
  THEN Panic
  ELSE LET bytes == <<0>> \o next_block_hash \o to_le_bytes(sum.wrapped)
       IN  IF Len(bytes) = 41 THEN Ok(bytes) ELSE Panic

\* BuildEndorsement::hint: 0x00, the next block hash, next_block_height + 2
\* little-endian.  The addition is a plain u64 `+`: when it overflows, a build
\* with overflow checks panics and a build without them wraps.
BuildEndorsement(next_block_hash, next_block_height, overflow_checks) ==
  LET sum == u64_add(next_block_height, 2) IN
  IF sum.overflow /\ overflow_checks
  THEN Panic
  ELSE LET bytes == <<0>> \o next_block_hash \o to_le_bytes(sum.wrapped)
       IN  IF Len(bytes) = 41 THEN Ok(bytes) ELSE Panic

----------------------------------------------------------------------------
(* Stake totals and the finality threshold                                 *)

\* the limbs of v * m + carry, m small: one limb more than v, so that the
\* product of a 128-bit stake is exact
RECURSIVE MulLimbs(_, _, _)
MulLimbs(v, m, carry) ==
  IF v = <<>>
  THEN <<carry>>
  ELSE LET p == Head(v) * m + carry
       IN  <<p % 65536>> \o MulLimbs(Tail(v), m, p \div 65536)

\* a > b for two numbers of the same number of limbs
RECURSIVE GreaterLimbs(_, _)
GreaterLimbs(a, b) ==
  IF a = <<>>
  THEN FALSE
  ELSE LET n == Len(a)
       IN  IF a[n] # b[n]
           THEN a[n] > b[n]
           ELSE GreaterLimbs(SubSeq(a, 1, n - 1), SubSeq(b, 1, n - 1))

\* From<StakeInfo> for StakeInfoVariableValue: both u128 totals as they are
StakeInfoVariableValue_from(value) ==
  [approved |-> value.approved, total |-> value.total]

\* the threshold with >= in place of >
stake_is_sufficient_NonStrict(stake) ==
  ~GreaterLimbs(MulLimbs(stake.total, 2, 0), MulLimbs(stake.approved, 3, 0))

\* the finality threshold over the stake totals: approved * 3 > total * 2,
\* both products exact
stake_is_sufficient(stake) ==
  GreaterLimbs(MulLimbs(stake.approved, 3, 0), MulLimbs(stake.total, 2, 0))

----------------------------------------------------------------------------
(* Merkle inclusion proof                                                  *)

\* one level of the fold with the sibling always placed on the right
combine_with_sibling_Unordered(current, item) ==
  curta_sha256_pair(current, item.hash)

\* one level of the fold: the sibling goes on the side the item declares
combine_with_sibling(current, item) ==
  IF item.direction = "Left"
  THEN curta_sha256_pair(item.hash, current)
  ELSE curta_sha256_pair(current, item.hash)

\* the leaf hash folded with each (sibling_hash, direction) in path order
RECURSIVE compute_root_from_path(_, _)
compute_root_from_path(path, current) ==
  IF path = <<>>
  THEN current
  ELSE compute_root_from_path(Tail(path), combine_with_sibling(current, Head(path)))

\* the folded value compared with the expected root
verify_hash(root, path, leaf) == compute_root_from_path(path, leaf) = root

----------------------------------------------------------------------------
(* Erasure coding of a payload and the Merkle commitment over its shards   *)

\* a returned Err
Err(e) == [ok |-> FALSE, val |-> e]

\* reed_solomon_novelpoly: shards from which the payload can be rebuilt
recoverablity_subset_size(n_wanted_shards) ==
  (IF n_wanted_shards = 0 THEN 0 ELSE n_wanted_shards - 1) \div 3 + 1

RECURSIVE next_lower_power_of_2(_)
next_lower_power_of_2(k) ==
  IF k <= 1 THEN k ELSE 2 * next_lower_power_of_2(k \div 2)

RECURSIVE next_higher_power_of_2(_)
next_higher_power_of_2(k) ==
  IF k <= 1 THEN 1 ELSE 2 * next_higher_power_of_2((k + 1) \div 2)

\* CodeParams::derive_parameters: the code works on powers of two, k rounded
\* down and n rounded up
derive_parameters(n, k) ==
  IF n < 2 THEN Err("WantedShardCountTooLow")
  ELSE IF k < 1 THEN Err("WantedPayloadShardCountTooLow")
  ELSE Ok([n        |-> next_higher_power_of_2(n),
           k        |-> next_lower_power_of_2(k),
           wanted_n |-> n])

\* ReedSolomon::shard_len: bytes per shard, two per 16-bit symbol
shard_len(payload_size, k) ==
  LET payload_symbols == (payload_size + 1) \div 2
  IN  ((payload_symbols + k - 1) \div k) * 2

\* reed_solomon_novelpoly field f2e16: the code symbols are the 2^16 elements
\* of GF(2^16), two bytes each
FIELD_BITS == 16

\* the field polynomial x^16 + x^5 + x^3 + x^2 + 1 without its leading term
GENERATOR == 45

\* the Cantor basis of the field: the symbol with bit i set alone is the
\* element BASE[i + 1], a polynomial in x written as a number
BASE ==
  <<1, 44234, 15374, 5694, 50562, 60718, 37196, 16402,
    27800, 4312, 27250, 47360, 64952, 64308, 65336, 39198>>

\* the inverse change of basis: the symbol of the element x^i
BASE_INVERSE ==
  <<1, 18064, 26072, 25296, 22324, 17904, 21432, 7736,
    31918, 20024, 26376, 49756, 31332, 40620, 4388, 21050>>

\* bit i of a number
Bit(x, i) == (x \div 2^i) % 2

\* the positions of the bits set in a number below 2^16
BitsOf(x) == {i \in 0..(FIELD_BITS - 1) : Bit(x, i) = 1}

\* the number whose set bits are at the positions s
NumberOf(s) ==
  LET b(i) == IF i \in s THEN 2^i ELSE 0
  IN  b(0) + b(1) + b(2) + b(3) + b(4) + b(5) + b(6) + b(7)
        + b(8) + b(9) + b(10) + b(11) + b(12) + b(13) + b(14) + b(15)

\* An element of the field is held as the set of the exponents of its
\* polynomial.  Addition in the field: exclusive or
Additive_add(a, b) == (a \ b) \cup (b \ a)

\* the sum of the rows picked by s
ChangeBasis(s, rows) ==
  {b \in 0..(FIELD_BITS - 1) :
     Cardinality({i \in s : Bit(rows[i + 1], b) = 1}) % 2 = 1}

\* the element a symbol stands for, and the symbol of an element
ElementOf(symbol) == ChangeBasis(BitsOf(symbol), BASE)

SymbolOf(element) == NumberOf(ChangeBasis(element, BASE_INVERSE))

\* product of two polynomials over GF(2)
PolyMul(a, b) ==
  {n \in 0..(2 * FIELD_BITS - 2) :
     Cardinality({i \in a : (n - i) \in b}) % 2 = 1}

\* a polynomial of degree below 2 * FIELD_BITS - 1 reduced by the field
\* polynomial: x^16 is GENERATOR, and two passes bring every term below x^16
PolyReduce(c) ==
  LET low(s)  == {n \in s : n < FIELD_BITS}
      high(s) == {n - FIELD_BITS : n \in {m \in s : m >= FIELD_BITS}}
      once    == PolyMul(high(c), BitsOf(GENERATOR))
      twice   == PolyMul(high(once), BitsOf(GENERATOR))
  IN  Additive_add(Additive_add(low(c), low(once)), twice)

\* Additive::mul: product of two elements, zero when either is
Additive_mul(a, b) ==
  IF a = {} \/ b = {} THEN {} ELSE PolyReduce(PolyMul(a, b))

\* an element to the power e
RECURSIVE Additive_pow(_, _)
Additive_pow(a, e) ==
  IF e = 0 THEN {0}
  ELSE LET half == Additive_pow(a, e \div 2)
           sq   == Additive_mul(half, half)
       IN  IF e % 2 = 1 THEN Additive_mul(sq, a) ELSE sq

\* the inverse of a non-zero element: its power 2^16 - 2
Additive_inv(a) == Additive_pow(a, 2^FIELD_BITS - 2)

\* the product of (at + points[l]) over every l from `from` on but m
RECURSIVE ProductOfDifferences(_, _, _, _)
ProductOfDifferences(points, at, m, from) ==
  IF from > Len(points) THEN {0}
  ELSE LET rest == ProductOfDifferences(points, at, m, from + 1)
       IN  IF from = m THEN rest
           ELSE Additive_mul(Additive_add(at, points[from]), rest)

\* for each point, the inverse of the product of its differences with the
\* other points, from m on
RECURSIVE InverseDenominators(_, _)
InverseDenominators(points, m) ==
  IF m > Len(points) THEN <<>>
  ELSE <<Additive_inv(ProductOfDifferences(points, points[m], m, 1))>>
         \o InverseDenominators(points, m + 1)

\* The polynomial of degree below Len(points) through (points[m], values[m])
\* takes at the point `at` the value sum of values[m] * weight m; the
\* weights of `at`, from m on
RECURSIVE Weights(_, _, _, _)
Weights(points, inverses, at, m) ==
  IF m > Len(points) THEN <<>>
  ELSE <<Additive_mul(ProductOfDifferences(points, at, m, 1), inverses[m])>>
         \o Weights(points, inverses, at, m + 1)

\* the weights of the point of each of the slots `from`..`to - 1`
RECURSIVE WeightsOfRange(_, _, _, _)
WeightsOfRange(points, inverses, from, to) ==
  IF from >= to THEN <<>>
  ELSE <<Weights(points, inverses, ElementOf(from), 1)>>
         \o WeightsOfRange(points, inverses, from + 1, to)

\* the weights of the slots `from`..`to - 1` for the points of the slots
\* given (from 0)
Interpolation(slots, from, to) ==
  LET points == [m \in 1..Len(slots) |-> ElementOf(slots[m])]
  IN  WeightsOfRange(points, InverseDenominators(points, 1), from, to)

\* the weighted sum of the values, from m on
RECURSIVE Evaluate(_, _, _)
Evaluate(weights, values, m) ==
  IF m > Len(weights) THEN {}
  ELSE Additive_add(Additive_mul(values[m], weights[m]),
                    Evaluate(weights, values, m + 1))

\* Additive(Elt::from_be_bytes(..)): symbol c (from 0) of a byte string
SymbolAt(bytes, c) == bytes[2 * c + 1] * 256 + bytes[2 * c + 2]

\* Elt::to_be_bytes
SymbolBytes(y) == <<y \div 256, y % 256>>

\* concatenation of a sequence of sequences
RECURSIVE Flatten(_)
Flatten(ss) == IF ss = <<>> THEN <<>> ELSE Head(ss) \o Flatten(Tail(ss))

\* the symbols of chunk c (from 0) held by the slots given (from 0), as
\* elements
ChunkOf(shards, slots, c) ==
  [m \in 1..Len(slots) |-> ElementOf(SymbolAt(shards[slots[m] + 1], c))]

\* the bytes of the values, at the points whose weights are given from t on,
\* of the polynomial through the values given
RECURSIVE ValuesAt(_, _, _)
ValuesAt(weights, values, t) ==
  IF t > Len(weights) THEN <<>>
  ELSE SymbolBytes(SymbolOf(Evaluate(weights[t], values, 1)))
         \o ValuesAt(weights, values, t + 1)

\* chunk after chunk from c on, the bytes of the values at the points whose
\* weights are given
RECURSIVE ChunksFrom(_, _, _, _, _)
ChunksFrom(shards, slots, weights, c, chunks) ==
  IF c >= chunks THEN <<>>
  ELSE ValuesAt(weights, ChunkOf(shards, slots, c), 1)
         \o ChunksFrom(shards, slots, weights, c + 1, chunks)

\* reed_solomon_novelpoly::encode: validator_count shards.  The payload is
\* zero-padded and cut into chunks of k symbols; the k symbols of a chunk are
\* the values at the points of the slots 0..k-1 of a polynomial of degree
\* below k, and slot v holds, chunk after chunk, the value of that polynomial
\* at the point of v
encode(bytes, validator_count) ==
  LET params == derive_parameters(validator_count,
                                  recoverablity_subset_size(validator_count))
  IN  IF ~params.ok THEN params
      ELSE IF bytes = <<>> THEN Err("PayloadSizeIsZero")
      ELSE
        LET k       == params.val.k
            len     == shard_len(Len(bytes), k)
            padded  == [i \in 1..(len * k) |->
                          IF i <= Len(bytes) THEN bytes[i] ELSE 0]
            pieces  == [m \in 1..k |->
                          [j \in 1..len |->
                             padded[2 * k * ((j - 1) \div 2) + 2 * (m - 1)
                                      + ((j - 1) % 2) + 1]]]
            slots   == [m \in 1..k |-> m - 1]
            weights == Interpolation(slots, 0, validator_count)
        IN  Ok([v \in 1..validator_count |->
                 ChunksFrom(pieces, slots, <<weights[v]>>, 0, len \div 2)])

\* the present slots among the first n, in increasing order
RECURSIVE PresentSlots(_, _, _)
PresentSlots(shards, from, n) ==
  IF from > n \/ from > Len(shards) THEN <<>>
  ELSE (IF shards[from].some THEN <<from>> ELSE <<>>)
         \o PresentSlots(shards, from + 1, n)

\* reed_solomon_novelpoly::reconstruct: fails when fewer than k of the slots
\* hold a shard; otherwise, chunk after chunk, the polynomial is rebuilt from
\* the symbols of k present slots at the points of those slots and its values
\* at the points of the slots 0..k-1 are returned, padding included
reconstruct(received_shards, validator_count) ==
  LET params == derive_parameters(validator_count,
                                  recoverablity_subset_size(validator_count))
  IN  IF ~params.ok THEN params
      ELSE
        LET k       == params.val.k
            present == PresentSlots(received_shards, 1, params.val.n)
        IN  IF Len(present) < k THEN Err("NeedMoreShards")
            ELSE
              LET first  == received_shards[present[1]].v
                  slots  == [m \in 1..k |-> present[m] - 1]
                  shards == [v \in 1..Len(received_shards) |->
                               received_shards[v].v]
              IN  IF first = <<>> THEN Err("PayloadSizeIsZero")
                  ELSE Ok(ChunksFrom(shards, slots, Interpolation(slots, 0, k),
                                     0, Len(first) \div 2))

\* near_primitives combine_hash: SHA-256 of the two child hashes
combine_hash(hash1, hash2) == curta_sha256_pair(hash1, hash2)

\* one level up in the tree: pairs are combined, an odd last node moves up
\* as it is
NextLevel(hashes) ==
  [i \in 1..((Len(hashes) + 1) \div 2) |->
     IF 2 * i <= Len(hashes)
     THEN combine_hash(hashes[2 * i - 1], hashes[2 * i])
     ELSE hashes[2 * i - 1]]

RECURSIVE merkle_root(_)
merkle_root(hashes) ==
  IF Len(hashes) = 1 THEN hashes[1] ELSE merkle_root(NextLevel(hashes))

\* the path of node i (from 0) of a level: its sibling when it has one, on
\* the right of an even node and on the left of an odd one, then the path of
\* its parent
RECURSIVE merkle_path(_, _)
merkle_path(hashes, i) ==
  IF Len(hashes) = 1 THEN <<>>
  ELSE LET sibling == IF i % 2 = 0 THEN i + 1 ELSE i - 1
           item    == IF sibling < Len(hashes)
                      THEN <<[hash      |-> hashes[sibling + 1],
                              direction |-> IF i % 2 = 0 THEN "Right"
                                                         ELSE "Left"]>>
                      ELSE <<>>
       IN  item \o merkle_path(NextLevel(hashes), i \div 2)

\* near_primitives::merkle::merklize over a slice: the root of the tree over
\* the hashes of the items and one path per item
merklize(arr) ==
  IF arr = <<>>
  THEN [root |-> CryptoHash_default, paths |-> <<>>]
  ELSE LET hashes == [i \in 1..Len(arr) |-> curta_sha256(<<arr[i]>>)]
       IN  [root  |-> merkle_root(hashes),
            paths |-> [i \in 1..Len(arr) |-> merkle_path(hashes, i - 1)]]

\* std::mem::size_of::<MerklePath>(): a MerklePath is a Vec, three words
SIZE_OF_MERKLE_PATH == 24

\* std::mem::size_of_val of a slice of paths
size_of_val(path) == Len(path) * SIZE_OF_MERKLE_PATH

\* Erasure::<VALIDATORS>::encodify: every shard of the encoding, present
Erasure_encodify(VALIDATORS, data) ==
  LET shards == encode(data, VALIDATORS)
  IN  IF ~shards.ok THEN shards
      ELSE Ok([VALIDATORS |-> VALIDATORS,
               shards |-> [v \in 1..Len(shards.val) |-> Some(shards.val[v])]])

\* Erasure::recover with the slots handed over from the last to the first
Erasure_recover_Reversed(self) ==
  reconstruct([i \in 1..Len(self.shards) |->
                 self.shards[Len(self.shards) + 1 - i]],
              self.VALIDATORS)

\* Erasure::recover with the empty slots filtered out, as merklize does
Erasure_recover_Compacted(self) ==
  LET kept == PresentSlots(self.shards, 1, Len(self.shards))
  IN  reconstruct([i \in 1..Len(kept) |-> self.shards[kept[i]]],
                  self.VALIDATORS)

\* Erasure::recover: the slots, empty ones included, handed to the decoder
Erasure_recover(self) == reconstruct(self.shards, self.VALIDATORS)

\* Erasure::merklize with the shards taken from the last slot to the first
Erasure_merklize_Reversed(self) ==
  LET kept == PresentSlots(self.shards, 1, Len(self.shards))
      flattened_data ==
        Flatten([i \in 1..Len(kept) |-> self.shards[kept[Len(kept) + 1 - i]].v])
  IN  merklize(flattened_data)

\* Erasure::merklize: the bytes of the present shards, slot after slot,
\* merklized byte by byte
Erasure_merklize(self) ==
  LET kept == PresentSlots(self.shards, 1, Len(self.shards))
      flattened_data == Flatten([i \in 1..Len(kept) |-> self.shards[kept[i]].v])
  IN  merklize(flattened_data)

----------------------------------------------------------------------------
(* Synced state                                                            *)

\* From<Synced> for SyncedVariableValue: without next_bps the seats are all
\* default and the epoch is the default hash; with next_bps (epoch, list) the
\* list is converted element by element and collected as it is
SyncedVariableValue_from(value) ==
  LET default_bps ==
        Rep(ValidatorStakeVariableValue_default, NUM_BLOCK_PRODUCER_SEATS)
      list == IF value.next_bps.some THEN value.next_bps.v[2] ELSE <<>>
      converted == [i \in 1..Len(list) |->
                      ValidatorStakeVariableValue_from(list[i])]
  IN  IF \E i \in 1..Len(list) : ~converted[i].ok THEN Panic
      ELSE Ok([new_head       |-> HeaderVariableValue_from(value.new_head),
               next_bps_epoch |-> IF value.next_bps.some
                                    THEN value.next_bps.v[1]
                                    ELSE CryptoHash_default,
               next_bps       |-> IF value.next_bps.some
                                    THEN [i \in 1..Len(list) |-> converted[i].val]
                                    ELSE default_bps])

----------------------------------------------------------------------------
(* Transaction or receipt id: wire encoding                                *)

\* ByteVariable::from_be_bits: the first bit is the most significant
RECURSIVE from_be_bits(_)
from_be_bits(bits) ==
  IF bits = <<>>
  THEN 0
  ELSE 2 * from_be_bits(SubSeq(bits, 1, Len(bits) - 1))
         + (IF bits[Len(bits)] THEN 1 ELSE 0)

\* byte_from_bool: eight false bits with the last one set to the bool
byte_from_bool(bool) ==
  from_be_bits([[i \in 1..8 |-> FALSE] EXCEPT ![8] = bool])

\* TransactionOrReceiptIdVariable::encode on the values the variables carry
TransactionOrReceiptIdVariable_encode(self) ==
  Ok(<<byte_from_bool(self.is_transaction)>>
       \o Bytes32_encode_value(self.id) \o self.account)

\* TransactionOrReceiptIdVariable::decode on the values the variables carry:
\* the slices panic on fewer bytes than they reach, and more are ignored
TransactionOrReceiptIdVariable_decode(bytes) ==
  IF Len(bytes) < 33 + MAX_LEN THEN Panic
  ELSE LET is_receipt == bytes[1] = 0
       IN  Ok([is_transaction |-> ~is_receipt,
               id             |-> Bytes32_decode_value(Slice(bytes, 1, 33)),
               account        |-> Slice(bytes, 33, 33 + MAX_LEN)])

\* encode_value with the flag of a transaction and of a receipt exchanged
TransactionOrReceiptIdVariable_encode_value_Inverted(value) ==
  LET account == pad_account_bytes(value.account)
  IN  IF ~account.ok THEN Panic
      ELSE Ok(<<IF value.is_transaction THEN 0 ELSE 1>>
                \o Bytes32_encode_value(value.id) \o account.val)

\* TransactionOrReceiptIdVariable::encode_value: the flag as u8, the id, the
\* account bytes padded to MAX_LEN
TransactionOrReceiptIdVariable_encode_value(value) ==
  LET account == pad_account_bytes(value.account)
  IN  IF ~account.ok THEN Panic
      ELSE Ok(<<IF value.is_transaction THEN 1 ELSE 0>>
                \o Bytes32_encode_value(value.id) \o account.val)

\* TransactionOrReceiptIdVariable::decode_value: asserts the length first
TransactionOrReceiptIdVariable_decode_value(bytes) ==
  IF Len(bytes) # 1 + 32 + MAX_LEN THEN Panic
  ELSE Ok([is_transaction |-> bytes[1] # 0,
           id             |-> Bytes32_decode_value(Slice(bytes, 1, 33)),
           account        |-> Slice(bytes, 33, 33 + MAX_LEN)])

----------------------------------------------------------------------------
(* Inputs                                                                  *)

\* 32-byte values: byte i of value k is (k * i) mod 256
Hash32(k) == [i \in 1..32 |-> (k * i) % 256]

\* u64 values: 0, 1, 0x0807060504030201, 2^63, 2^64 - 1
U64Inputs ==
  { <<0, 0, 0, 0>>, <<1, 0, 0, 0>>, <<513, 1027, 1541, 2055>>,
    <<0, 0, 0, 32768>>, <<65535, 65535, 65535, 65535>> }

\* seeds of the hash fields of a header: field j of seed s is Hash32(s * j)
HashSeeds == {0, 1, 3, 7}

MkInner(h, t, s) ==
  [height            |-> h,
   epoch_id          |-> Hash32(s),
   next_epoch_id     |-> Hash32(2 * s),
   prev_state_root   |-> Hash32(3 * s),
   outcome_root      |-> Hash32(4 * s),
   timestamp         |-> t,
   next_bp_hash      |-> Hash32(5 * s),
   block_merkle_root |-> Hash32(6 * s)]

InnerInputs == { MkInner(h, t, s) : h \in U64Inputs, t \in U64Inputs,
                                    s \in HashSeeds }

HeaderInputs ==
  { [prev_block_hash |-> Hash32(7 * s + 1),
     inner_rest_hash |-> Hash32(8 * s + 2),
     inner_lite      |-> MkInner(h, t, s)] :
      h \in U64Inputs, t \in U64Inputs, s \in HashSeeds }

\* byte strings of every length around the two fixed widths
RawLengths ==
  { 0, 1, INNER_ENCODED_LEN - 1, INNER_ENCODED_LEN, INNER_ENCODED_LEN + 1,
    HEADER_ENCODED_LEN - 1, HEADER_ENCODED_LEN, HEADER_ENCODED_LEN + 1 }

RawBytes(n, a, c) == [i \in 1..n |-> (a * i + c) % 256]

RawInputs == { RawBytes(n, a, c) : n \in RawLengths, a \in {0, 1, 37},
                                    c \in {0, 255} }

\* legal account ids: "ab", "alice.near", "a-b_c.d0", one of 63 letters and
\* one of 64 digits
AccountInputs ==
  { <<97, 98>>,
    <<97, 108, 105, 99, 101, 46, 110, 101, 97, 114>>,
    <<97, 45, 98, 95, 99, 46, 100, 48>>,
    [i \in 1..(MAX_LEN - 1) |-> 97 + (i % 26)],
    [i \in 1..MAX_LEN |-> 48 + (i % 10)] }

\* byte vectors of any length and content, some longer than MAX_LEN
AccountByteInputs ==
  AccountInputs
    \cup { [i \in 1..n |-> 97 + ((a * i) % 26)] :
             n \in {0, 1, MAX_LEN - 1, MAX_LEN, MAX_LEN + 1, MAX_LEN + 6,
                    2 * MAX_LEN},
             a \in {0, 1, 5} }
    \cup { <<97, 98, 44, 99, 100>>, <<44>>, <<0, 0, 0>>, <<65, 66>> }

\* MAX_LEN-byte buffers: padded account ids and other content
PaddedInputs ==
  { pad_account_id(a).val : a \in AccountInputs }
    \cup { resize(b, MAX_LEN, c) : b \in AccountByteInputs, c \in {0, 44, 97} }

\* validator i: a legal account id (the second one MAX_LEN bytes long), a
\* 32-byte ed25519 key or a 64-byte secp256k1 key, a 128-bit stake
ValidatorView(i, scheme) ==
  [account_id |-> IF i = 2 THEN [j \in 1..MAX_LEN |-> 48 + (j % 10)]
                  ELSE <<118, 97 + i, 46, 110>>,
   public_key |-> IF scheme = "ED25519"
                    THEN [kind |-> scheme, data |-> Hash32(10 + i)]
                    ELSE [kind |-> scheme,
                          data |-> Hash32(10 + i) \o Hash32(20 + i)],
   stake      |-> <<i, 1000 + i, 0, 0, 0, 0, 0, 40000 + i>>]

MaxList == NUM_BLOCK_PRODUCER_SEATS + MaxExtra

\* validator lists of every length up to MaxList; list (n, p) has its p-th
\* validator on a secp256k1 key (none when p = 0)
ValidatorLists ==
  { [i \in 1..n |-> ValidatorView(i, IF i = p THEN "SECP256K1" ELSE "ED25519")] :
      n \in 0..MaxList, p \in 0..MaxList }

NextBpsInputs == {None} \cup { Some(l) : l \in ValidatorLists }

\* optional signatures: absent, ed25519 (64 bytes r || s), secp256k1 (65)
SignatureOption(i, kind) ==
  IF kind = "None" THEN [kind |-> "None", bytes |-> <<>>]
  ELSE IF kind = "ED25519"
    THEN [kind |-> kind,
          bytes |-> Hash32(30 + i) \o [j \in 1..32 |-> (i * j) % 16]]
    ELSE [kind |-> kind, bytes |-> [j \in 1..65 |-> (i + j) % 256]]

SignatureKinds == <<"None", "ED25519", "SECP256K1">>

\* every approval list of at most NUM_BLOCK_PRODUCER_SEATS + 1 entries, and
\* longer ones whose kinds rotate
ApprovalLists ==
  UNION { { [i \in 1..m |-> SignatureOption(i, k[i])] :
              k \in [1..m -> {"None", "ED25519", "SECP256K1"}] } :
          m \in 0..(NUM_BLOCK_PRODUCER_SEATS + 1) }
    \cup { [i \in 1..m |-> SignatureOption(i, SignatureKinds[((i + r) % 3) + 1])] :
             m \in (NUM_BLOCK_PRODUCER_SEATS + 1)..MaxList, r \in 0..2 }

BlockApprovalLists ==
  { [i \in 1..m |-> SignatureOption(i, SignatureKinds[((i + r) % 3) + 1])] :
      m \in {0, NUM_BLOCK_PRODUCER_SEATS - 1, NUM_BLOCK_PRODUCER_SEATS, MaxList},
      r \in 0..2 }

\* block records: one header with a legacy timestamp of zero, one without
BlockInputs ==
  { [prev_block_hash       |-> Hash32(41),
     next_block_inner_hash |-> Hash32(42),
     inner_rest_hash       |-> Hash32(43),
     inner_lite            |->
       [height            |-> <<513, 1027, 1541, 2055>>,
        epoch_id          |-> Hash32(44),
        next_epoch_id     |-> Hash32(45),
        prev_state_root   |-> Hash32(46),
        outcome_root      |-> Hash32(47),
        timestamp         |-> t,
        timestamp_nanosec |-> <<7, 8, 9, 10>>,
        next_bp_hash      |-> Hash32(48),
        block_merkle_root |-> Hash32(49)],
     next_bps              |-> bps,
     approvals_after_next  |-> approvals] :
      t \in {<<0, 0, 0, 0>>, <<5, 0, 0, 0>>},
      bps \in NextBpsInputs,
      approvals \in BlockApprovalLists }

\* block heights: the u64 values above, heights whose + 2 carries into the
\* next limb, and the three largest heights
HeightInputs ==
  U64Inputs \cup { <<65534, 0, 0, 0>>, <<65535, 65535, 0, 0>>,
                   <<65533, 65535, 65535, 65535>>,
                   <<65534, 65535, 65535, 65535>> }

\* the limbs of v + n for a small n that may be negative; the sum stays
\* within the limbs of v for the inputs below
RECURSIVE AddLimbs(_, _)
AddLimbs(v, n) ==
  IF v = <<>>
  THEN <<>>
  ELSE LET p == Head(v) + n
       IN  <<p % 65536>> \o AddLimbs(Tail(v), p \div 65536)

\* stake totals around two thirds: total = 3k + r and approved = 2k + d
MkStakeInfo(k, r, d) ==
  [approved |-> AddLimbs(SubSeq(MulLimbs(k, 2, 0), 1, 8), d),
   total    |-> AddLimbs(SubSeq(MulLimbs(k, 3, 0), 1, 8), r)]

\* k: 1, 7, values whose multiples carry across limbs, a value with its top
\* limb set, and (2^128 - 1) / 3
StakeBases ==
  { <<1, 0, 0, 0, 0, 0, 0, 0>>, <<7, 0, 0, 0, 0, 0, 0, 0>>,
    <<21846, 0, 0, 0, 0, 0, 0, 0>>, <<65535, 32767, 0, 0, 0, 0, 0, 0>>,
    <<0, 0, 0, 0, 0, 0, 0, 1>>, <<4660, 22136, 0, 0, 43981, 0, 0, 21845>>,
    Rep(21845, 8) }

StakeRemainders(k) == IF k = Rep(21845, 8) THEN {0} ELSE 0..2

U128_ZERO == Rep(0, 8)

U128_MAX == Rep(65535, 8)

\* the (k, r, d) drawn: 3k + r stays within 128 bits
StakeTriples ==
  { t \in StakeBases \X (0..2) \X (-2..3) : t[2] \in StakeRemainders(t[1]) }

\* stake totals: around two thirds, and the extremes
StakeInputs ==
  { MkStakeInfo(t[1], t[2], t[3]) : t \in StakeTriples }
    \cup { [approved |-> a, total |-> t] : a \in {U128_ZERO, U128_MAX},
                                           t \in {U128_ZERO, U128_MAX} }

\* the deepest Merkle path drawn
MaxDepth == 3

\* leaf and sibling hashes; a sibling may equal the leaf it is paired with,
\* as in a tree over two equal items
LeafInputs == { Hash32(1), Hash32(3) }

MerkleItems ==
  { [hash |-> h, direction |-> d] : h \in LeafInputs, d \in {"Left", "Right"} }

RECURSIVE PathsOfLen(_)
PathsOfLen(n) ==
  IF n = 0
  THEN { <<>> }
  ELSE { <<i>> \o p : i \in MerkleItems, p \in PathsOfLen(n - 1) }

MerklePaths == UNION { PathsOfLen(n) : n \in 0..MaxDepth }

\* a root that no fold of the inputs produces
StrayRoot == Hash32(5)

\* the hashes a leaf, sibling or root can be replaced with
OtherHashes(h) == { Hash32(1), Hash32(3), Hash32(5) } \ { h }

\* every triple that differs from t in exactly one place: the leaf, the root,
\* the sibling hash of one path element or the direction of one path element
Tamperings(t) ==
  { [t EXCEPT !.leaf = h] : h \in OtherHashes(t.leaf) }
    \cup { [t EXCEPT !.root = StrayRoot] }
    \cup { [t EXCEPT !.path[i].hash = h] :
             i \in 1..Len(t.path), h \in { Hash32(1), Hash32(3), Hash32(5) } }
    \cup { [t EXCEPT !.path[i].direction =
                       IF @ = "Left" THEN "Right" ELSE "Left"] :
             i \in 1..Len(t.path) }

\* the text of a payload as bytes
Hello == <<104, 101, 108, 108, 111>>

\* b"he1lohe2lohe3lohe4lohe5lohe6lohe7lohe8lo"
He1lo ==
  [i \in 1..40 |-> IF i % 5 = 3 THEN 49 + (i - 1) \div 5
                   ELSE Hello[((i - 1) % 5) + 1]]

\* payloads: none, one byte, "hello", eight bytes, the 40 bytes above
PayloadInputs ==
  { <<>>, <<7>>, Hello, [i \in 1..8 |-> 16 * i], He1lo }

\* shard counts: too few, the two of the tests, and one that is not a power
\* of two
ValidatorCounts == {1, 4, 6, 8}

\* synced states: a head, and no next validator set or one of an epoch
SyncedInputs ==
  { [new_head |->
       [prev_block_hash |-> Hash32(51),
        inner_rest_hash |-> Hash32(52),
        inner_lite      |->
          [height            |-> <<513, 1027, 1541, 2055>>,
           epoch_id          |-> Hash32(53),
           next_epoch_id     |-> Hash32(54),
           prev_state_root   |-> Hash32(55),
           outcome_root      |-> Hash32(56),
           timestamp         |-> t,
           timestamp_nanosec |-> <<7, 8, 9, 10>>,
           next_bp_hash      |-> Hash32(57),
           block_merkle_root |-> Hash32(58)]],
     next_bps |-> bps] :
      t \in {<<0, 0, 0, 0>>, <<5, 0, 0, 0>>},
      bps \in {None} \cup { Some(<<Hash32(54), l>>) : l \in ValidatorLists } }

\* transaction and receipt ids: an id, and an account buffer of MAX_LEN
\* bytes, padded account ids and other content
TxInputs ==
  { [is_transaction |-> t, id |-> Hash32(s), account |-> a] :
      t \in BOOLEAN, s \in {0, 1, 7},
      a \in { pad_account_id(x).val : x \in AccountInputs }
              \cup { Rep(0, MAX_LEN), Rep(255, MAX_LEN) } }

\* wire bytes of every length around 1 + 32 + MAX_LEN, the first byte zero,
\* one or another value
TxWireInputs ==
  { [i \in 1..n |-> IF i = 1 THEN flag ELSE (3 * i) % 256] :
      n \in {0, 1, 33, 32 + MAX_LEN, 33 + MAX_LEN, 34 + MAX_LEN,
             2 * (33 + MAX_LEN)},
      flag \in {0, 1, 2, 128, 255} }

----------------------------------------------------------------------------
(* The state machine                                                       *)

Init ==
  /\ call = "none"
  /\ arg = <<>>
  /\ ret = Ok(<<>>)

\* HeaderVariable::hash applied to a header
HeaderHash ==
  \E h \in HeaderInputs :
    /\ call = "none"
    /\ call' = "HeaderVariable::hash"
    /\ arg' = h
    /\ ret' = Ok(HeaderVariable_hash(h))

\* the EncodeInner hint applied to an inner header
EncodeInnerHint ==
  \E inner \in InnerInputs :
    /\ call = "none"
    /\ call' = "EncodeInner::hint"
    /\ arg' = inner
    /\ ret' = Ok(EncodeInner(inner))

\* HeaderVariable::encode_value applied to a header
HeaderEncodeValue ==
  \E h \in HeaderInputs :
    /\ call = "none"
    /\ call' = "HeaderVariable::encode_value"
    /\ arg' = h
    /\ ret' = Ok(HeaderVariable_encode_value(h))

\* HeaderVariable::decode_value applied to a byte string
HeaderDecodeValue ==
  \E b \in RawInputs \cup { HeaderVariable_encode_value(h) : h \in HeaderInputs } :
    /\ call = "none"
    /\ call' = "HeaderVariable::decode_value"
    /\ arg' = b
    /\ ret' = HeaderVariable_decode_value(b)

\* HeaderInnerVariable::decode_value applied to a byte string
InnerDecodeValue ==
  \E b \in RawInputs :
    /\ call = "none"
    /\ call' = "HeaderInnerVariable::decode_value"
    /\ arg' = b
    /\ ret' = HeaderInnerVariable_decode_value(b)

\* pad_account_id applied to an account id (legal by its type)
PadAccountId ==
  \E a \in AccountInputs :
    /\ call = "none"
    /\ call' = "pad_account_id"
    /\ arg' = a
    /\ ret' = pad_account_id(a)

\* pad_account_bytes applied to a byte vector
PadAccountBytes ==
  \E v \in AccountByteInputs :
    /\ call = "none"
    /\ call' = "pad_account_bytes"
    /\ arg' = v
    /\ ret' = pad_account_bytes(v)

\* normalise_account_id applied to a MAX_LEN-byte buffer
NormaliseAccountId ==
  \E buf \in PaddedInputs :
    /\ call = "none"
    /\ call' = "normalise_account_id"
    /\ arg' = buf
    /\ ret' = normalise_account_id(buf)

\* bps_to_variable applied to an optional validator list
BpsToVariable ==
  \E next_bps \in NextBpsInputs :
    /\ call = "none"
    /\ call' = "bps_to_variable"
    /\ arg' = next_bps
    /\ ret' = bps_to_variable(next_bps)

\* BpsApprovalsValue::from applied to a list of optional signatures
ApprovalsFrom ==
  \E approvals \in ApprovalLists :
    /\ call = "none"
    /\ call' = "BpsApprovalsValue::from"
    /\ arg' = approvals
    /\ ret' = Ok(BpsApprovalsValue_from(approvals))

\* BlockVariableValue::from applied to a block record
BlockFrom ==
  \E block \in BlockInputs :
    /\ call = "none"
    /\ call' = "BlockVariableValue::from"
    /\ arg' = block
    /\ ret' = BlockVariableValue_from(block)

\* HashBpsInputs::hint applied to the next_bps of the block just converted;
\* the block record and the converted block stay at hand as its input
HashBpsHint ==
  /\ call = "BlockVariableValue::from"
  /\ ret.ok
  /\ call' = "HashBpsInputs::hint"
  /\ arg' = [view |-> arg, block |-> ret.val]
  /\ ret' = HashBpsInputs(ret.val.next_bps)

\* BuildEndorsement::hint applied to a block hash and a height, in a build
\* with or without overflow checks
BuildEndorsementHint ==
  \E s \in HashSeeds, n \in HeightInputs, checks \in BOOLEAN :
    /\ call = "none"
    /\ call' = "BuildEndorsement::hint"
    /\ arg' = [next_block_hash   |-> Hash32(s + 1),
               next_block_height |-> n,
               overflow_checks   |-> checks]
    /\ ret' = BuildEndorsement(Hash32(s + 1), n, checks)

\* the finality threshold applied to the converted totals of a StakeInfo
StakeIsSufficient ==
  \E value \in StakeInputs :
    /\ call = "none"
    /\ call' = "stake_is_sufficient"
    /\ arg' = value
    /\ ret' = Ok(stake_is_sufficient(StakeInfoVariableValue_from(value)))

\* Merkle verification of a leaf and a path against the root the path folds
\* to, or against a stray root
MerkleVerify ==
  \E leaf \in LeafInputs, path \in MerklePaths :
    \E root \in { compute_root_from_path(path, leaf), StrayRoot } :
      /\ call = "none"
      /\ call' = "merkle::verify"
      /\ arg' = [leaf |-> leaf, path |-> path, root |-> root]
      /\ ret' = Ok(verify_hash(root, path, leaf))

\* Merkle verification of an accepted triple after one place of it changed;
\* the accepted triple stays at hand
MerkleVerifyChanged ==
  /\ call = "merkle::verify"
  /\ ret.ok
  /\ ret.val
  /\ \E t \in Tamperings(arg) :
       /\ t # arg
       /\ call' = "merkle::verify changed"
       /\ arg' = [leaf |-> t.leaf, path |-> t.path, root |-> t.root,
                  accepted |-> arg]
       /\ ret' = Ok(verify_hash(t.root, t.path, t.leaf))

\* Erasure::<n>::encodify of a payload.  The outcome records what the call
\* returned (out) and the shard set the caller holds afterwards (self).
Encodify ==
  \E n \in ValidatorCounts, data \in PayloadInputs :
    /\ call = "none"
    /\ call' = "Erasure::encodify"
    /\ arg' = [VALIDATORS |-> n, data |-> data]
    /\ LET e == Erasure_encodify(n, data)
       IN  ret' = Ok([out  |-> [ok |-> e.ok],
                      self |-> IF e.ok THEN e.val
                               ELSE [VALIDATORS |-> n, shards |-> <<>>]])

\* a shard set is at hand: the last call was on one, or made one
HoldsShards ==
  \/ call \in {"shards[i] = None", "Erasure::recover", "Erasure::merklize"}
  \/ call = "Erasure::encodify" /\ ret.val.out.ok

\* codewords.shards[i] = None: the holder of the shard set drops one shard
DropShard ==
  /\ HoldsShards
  /\ \E i \in 1..Len(ret.val.self.shards) :
       /\ ret.val.self.shards[i].some
       /\ call' = "shards[i] = None"
       /\ arg' = [VALIDATORS |-> arg.VALIDATORS, data |-> arg.data]
       /\ ret' = Ok([out  |-> [ok |-> TRUE],
                     self |-> [ret.val.self EXCEPT !.shards[i] = None]])

\* Erasure::recover on the shard set at hand
Recover ==
  /\ HoldsShards
  /\ call' = "Erasure::recover"
  /\ arg' = [VALIDATORS |-> arg.VALIDATORS, data |-> arg.data,
             self |-> ret.val.self]
  /\ ret' = Ok([out |-> Erasure_recover(ret.val.self), self |-> ret.val.self])

\* Erasure::merklize on the shard set at hand
Merklize ==
  /\ HoldsShards
  /\ call' = "Erasure::merklize"
  /\ arg' = [VALIDATORS |-> arg.VALIDATORS, data |-> arg.data,
             self |-> ret.val.self]
  /\ ret' = Ok([out |-> Erasure_merklize(ret.val.self), self |-> ret.val.self])

\* SyncedVariableValue::from applied to a synced state
SyncedFrom ==
  \E value \in SyncedInputs :
    /\ call = "none"
    /\ call' = "SyncedVariableValue::from"
    /\ arg' = value
    /\ ret' = SyncedVariableValue_from(value)

\* TransactionOrReceiptIdVariable::encode_value applied to a value
TxEncodeValue ==
  \E value \in TxInputs :
    /\ call = "none"
    /\ call' = "TransactionOrReceiptIdVariable::encode_value"
    /\ arg' = value
    /\ ret' = TransactionOrReceiptIdVariable_encode_value(value)

\* TransactionOrReceiptIdVariable::decode_value applied to the bytes just
\* encoded; the value encoded stays at hand
TxDecodeEncoded ==
  /\ call = "TransactionOrReceiptIdVariable::encode_value"
  /\ ret.ok
  /\ call' = "decode_value(encode_value)"
  /\ arg' = [value |-> arg, bytes |-> ret.val]
  /\ ret' = TransactionOrReceiptIdVariable_decode_value(ret.val)

\* TransactionOrReceiptIdVariable::decode_value applied to any bytes
TxDecodeValue ==
  \E bytes \in TxWireInputs :
    /\ call = "none"
    /\ call' = "TransactionOrReceiptIdVariable::decode_value"
    /\ arg' = bytes
    /\ ret' = TransactionOrReceiptIdVariable_decode_value(bytes)

\* TransactionOrReceiptIdVariable::encode in the circuit
TxEncode ==
  \E value \in TxInputs :
    /\ call = "none"
    /\ call' = "TransactionOrReceiptIdVariable::encode"
    /\ arg' = value
    /\ ret' = TransactionOrReceiptIdVariable_encode(value)

\* TransactionOrReceiptIdVariable::decode in the circuit
TxDecode ==
  \E bytes \in TxWireInputs :
    /\ call = "none"
    /\ call' = "TransactionOrReceiptIdVariable::decode"
    /\ arg' = bytes
    /\ ret' = TransactionOrReceiptIdVariable_decode(bytes)

\* the call returns to its caller; nothing is retained between calls
Return ==
  /\ call # "none"
  /\ call' = "none"
  /\ arg' = <<>>
  /\ ret' = Ok(<<>>)

Next ==
  \/ HeaderHash
  \/ EncodeInnerHint
  \/ HeaderEncodeValue
  \/ HeaderDecodeValue
  \/ InnerDecodeValue
  \/ PadAccountId
  \/ PadAccountBytes
  \/ NormaliseAccountId
  \/ BpsToVariable
  \/ ApprovalsFrom
  \/ BlockFrom
  \/ HashBpsHint
  \/ BuildEndorsementHint
  \/ StakeIsSufficient
  \/ MerkleVerify
  \/ MerkleVerifyChanged
  \/ Encodify
  \/ DropShard
  \/ Recover
  \/ Merklize
  \/ SyncedFrom
  \/ TxEncodeValue
  \/ TxDecodeEncoded
  \/ TxDecodeValue
  \/ TxEncode
  \/ TxDecode
  \/ Return

Spec == Init /\ [][Next]_vars

----------------------------------------------------------------------------
(* Properties of the header operations                                     *)

\* the 64-bit number whose 16-bit limbs are v is read little-endian from the
\* eight bytes of s that follow offset off
ReadsLE(s, off, v) ==
  \A k \in 1..4 : s[off + 2 * k - 1] + 256 * s[off + 2 * k] = v[k]

\* the same number read big-endian from those eight bytes
ReadsBE(s, off, v) ==
  \A k \in 1..4 : s[off + 10 - 2 * k] + 256 * s[off + 9 - 2 * k] = v[k]

\* the eight bytes of a number are the same in both byte orders
SameInBothOrders(v) == \A i \in 1..8 : to_le_bytes(v)[i] = to_le_bytes(v)[9 - i]

\* C1: the header hash is H(H(H(canonical(inner)) || inner_rest_hash) ||
\* prev_block_hash): the inner header is hashed first, that digest is paired
\* with inner_rest_hash on its right, and the result with prev_block_hash on
\* its right.
C1_HeaderHashChain ==
  call = "HeaderVariable::hash" =>
    LET h0 == <<"sha256", EncodeInner(arg.inner_lite)>>
        h1 == <<"sha256", <<h0, arg.inner_rest_hash>>>>
        h2 == <<"sha256", <<h1, arg.prev_block_hash>>>>
    IN  ret = Ok(h2)

C1_Witness ==
  /\ call = "HeaderVariable::hash"
  /\ ret.ok
  /\ arg.inner_rest_hash # arg.prev_block_hash
  /\ arg.inner_lite.height = <<513, 1027, 1541, 2055>>

\* C2: the canonical encoding of an inner header is exactly 208 bytes:
\* height (8, little-endian), epoch_id, next_epoch_id, prev_state_root,
\* outcome_root (32 each), timestamp (8, little-endian), next_bp_hash,
\* block_merkle_root (32 each), in this order.
C2_CanonicalLayout ==
  call = "EncodeInner::hint" =>
    /\ ret.ok
    /\ Len(ret.val) = 208
    /\ ReadsLE(ret.val, 0, arg.height)
    /\ Slice(ret.val, 8, 40) = arg.epoch_id
    /\ Slice(ret.val, 40, 72) = arg.next_epoch_id
    /\ Slice(ret.val, 72, 104) = arg.prev_state_root
    /\ Slice(ret.val, 104, 136) = arg.outcome_root
    /\ ReadsLE(ret.val, 136, arg.timestamp)
    /\ Slice(ret.val, 144, 176) = arg.next_bp_hash
    /\ Slice(ret.val, 176, 208) = arg.block_merkle_root
    /\ \A i \in 1..208 : ret.val[i] \in Byte

C2_Witness ==
  /\ call = "EncodeInner::hint"
  /\ arg.height = <<513, 1027, 1541, 2055>>
  /\ arg.timestamp = <<0, 0, 0, 32768>>
  /\ arg.epoch_id # arg.next_epoch_id
  /\ Len(ret.val) = 208

\* C3 as stated: the transport encoding is 272 bytes, prev_block_hash, then
\* inner_rest_hash, then bytes equal to the canonical encoding of the inner
\* header.
C3_TransportEmbedsCanonical ==
  call = "HeaderVariable::encode_value" =>
    /\ Len(ret.val) = 272
    /\ Slice(ret.val, 0, 32) = arg.prev_block_hash
    /\ Slice(ret.val, 32, 64) = arg.inner_rest_hash
    /\ Slice(ret.val, 64, 272) = EncodeInner(arg.inner_lite)

\* C3 amended: the transport encoding is 272 bytes, prev_block_hash, then
\* inner_rest_hash, then the eight inner fields in the canonical order and
\* widths with height and timestamp big-endian; bytes 64..272 equal the
\* canonical encoding exactly when height and timestamp read the same in
\* both byte orders.
C3_TransportLayout ==
  call = "HeaderVariable::encode_value" =>
    /\ ret.ok
    /\ Len(ret.val) = 272
    /\ Slice(ret.val, 0, 32) = arg.prev_block_hash
    /\ Slice(ret.val, 32, 64) = arg.inner_rest_hash
    /\ ReadsBE(ret.val, 64, arg.inner_lite.height)
    /\ Slice(ret.val, 72, 104) = arg.inner_lite.epoch_id
    /\ Slice(ret.val, 104, 136) = arg.inner_lite.next_epoch_id
    /\ Slice(ret.val, 136, 168) = arg.inner_lite.prev_state_root
    /\ Slice(ret.val, 168, 200) = arg.inner_lite.outcome_root
    /\ ReadsBE(ret.val, 200, arg.inner_lite.timestamp)
    /\ Slice(ret.val, 208, 240) = arg.inner_lite.next_bp_hash
    /\ Slice(ret.val, 240, 272) = arg.inner_lite.block_merkle_root
    /\ (Slice(ret.val, 64, 272) = EncodeInner(arg.inner_lite)
          <=> /\ SameInBothOrders(arg.inner_lite.height)
              /\ SameInBothOrders(arg.inner_lite.timestamp))

C3_Witness ==
  /\ call = "HeaderVariable::encode_value"
  /\ arg.inner_lite.height = <<1, 0, 0, 0>>
  /\ Len(ret.val) = 272
  /\ ret.val[72] = 1
  /\ ret.val[65] = 0

\* C4: transport decode inverts transport encode: decoding the encoding of a
\* header gives back the header field by field, and encoding the decoding of
\* any 272-byte string gives back the string.
C4_TransportRoundTrip ==
  /\ call = "HeaderVariable::encode_value" =>
       HeaderVariable_decode_value(ret.val) = Ok(arg)
  /\ call = "HeaderVariable::decode_value" =>
       /\ \A h \in HeaderInputs :
            arg = HeaderVariable_encode_value(h) => ret = Ok(h)
       /\ Len(arg) = 272 =>
            ret.ok /\ HeaderVariable_encode_value(ret.val) = arg

C4_Witness ==
  /\ call = "HeaderVariable::decode_value"
  /\ Len(arg) = 272
  /\ ret.ok
  /\ ret.val.inner_lite.height = <<513, 1027, 1541, 2055>>
  /\ ret.val.prev_block_hash # ret.val.inner_rest_hash
  /\ HeaderVariable_encode_value(ret.val) = arg

\* C5: decoding a header from a byte string that is not 272 bytes, or an
\* inner header from one that is not 208 bytes, fails and yields no value.
C5_WrongLengthFails ==
  /\ call = "HeaderVariable::decode_value" /\ Len(arg) # 272 => ~ret.ok
  /\ call = "HeaderInnerVariable::decode_value" /\ Len(arg) # 208 => ~ret.ok

C5_Witness ==
  /\ call = "HeaderInnerVariable::decode_value"
  /\ Len(arg) = 207
  /\ ~ret.ok

----------------------------------------------------------------------------
(* Properties of the account-id codec                                      *)

\* C6: for every legal account id of at most MAX_LEN bytes, unpadding its
\* padding gives it back exactly, and the padding is exactly MAX_LEN bytes:
\* the id's bytes followed only by the separator byte.
C6_PadUnpadRoundTrip ==
  /\ call = "pad_account_id" /\ IsLegalAccountId(arg) =>
       /\ ret.ok
       /\ Len(ret.val) = 64
       /\ \A i \in 1..64 : ret.val[i] = IF i <= Len(arg) THEN arg[i] ELSE 44
       /\ normalise_account_id(ret.val) = Ok(arg)
  /\ call = "normalise_account_id" =>
       \A a \in AccountInputs :
         (pad_account_id(a).ok /\ arg = pad_account_id(a).val) => ret = Ok(a)

C6_Witness ==
  /\ call = "normalise_account_id"
  /\ ret.ok
  /\ Len(ret.val) = 10
  /\ \E a \in AccountInputs : arg = pad_account_id(a).val

\* C7: padding a byte vector longer than MAX_LEN is rejected, never cut down
\* to MAX_LEN bytes.
C7_OverlongRejected ==
  call = "pad_account_bytes" /\ Len(arg) > 64 => ~ret.ok

\* what the code does instead: it returns the first MAX_LEN bytes
C7_OverlongTruncated ==
  call = "pad_account_bytes" /\ Len(arg) > 64 =>
    ret.ok /\ ret.val = [i \in 1..64 |-> arg[i]]

----------------------------------------------------------------------------
(* Properties of the validator set and the approval record                 *)

Min(a, b) == IF a < b THEN a ELSE b

\* the validator list of a block record, empty when the record has none
ListOf(next_bps) == IF next_bps.some THEN next_bps.v ELSE <<>>

\* seat i of the converted set carries validator v: its account id followed
\* by separator bytes, its key bytes and its stake
SeatCarries(seat, v) ==
  /\ Len(seat.account_id) = 64
  /\ \A j \in 1..64 :
       seat.account_id[j] = IF j <= Len(v.account_id) THEN v.account_id[j]
                            ELSE 44
  /\ seat.public_key = v.public_key.data
  /\ seat.stake = v.stake

\* seat i of the approval record carries the optional signature o: an
\* ed25519 signature is active with r its first 32 bytes and s the number
\* its last 32 bytes spell little-endian; an absent one is inactive with
\* the default signature; one of another scheme has the default signature
\* and the flag `other_active`
ApprovalCarries(active, sig, o, other_active) ==
  /\ o.kind = "ED25519" =>
       /\ active
       /\ sig.r = Slice(o.bytes, 0, 32)
       /\ \A k \in 1..16 : sig.s[k] = o.bytes[32 + 2 * k - 1]
                                        + 256 * o.bytes[32 + 2 * k]
  /\ o.kind = "SECP256K1" =>
       /\ active = other_active
       /\ sig = SignatureVariableValue_default.signature
  /\ o.kind = "None" => ~active /\ sig = SignatureVariableValue_default.signature

\* the lengths and the filled prefix of a converted block, with `empty` the
\* value expected in the seats past the validator list and `other_active`
\* the flag expected for a present approval that is not ed25519
BlockShape(block, value, empty, other_active) ==
  LET bps       == ListOf(block.next_bps)
      approvals == block.approvals_after_next
      record    == value.approvals_after_next
  IN  /\ Len(value.next_bps) = NUM_BLOCK_PRODUCER_SEATS
      /\ Len(record.is_active) = NUM_BLOCK_PRODUCER_SEATS
      /\ Len(record.signatures) = NUM_BLOCK_PRODUCER_SEATS
      /\ \A i \in 1..NUM_BLOCK_PRODUCER_SEATS :
           /\ i <= Len(bps) => SeatCarries(value.next_bps[i], bps[i])
           /\ i > Len(bps) => value.next_bps[i] = empty
           /\ i <= Len(approvals) =>
                ApprovalCarries(record.is_active[i], record.signatures[i],
                                approvals[i], other_active)
           /\ i > Len(approvals) =>
                /\ ~record.is_active[i]
                /\ record.signatures[i] =
                     SignatureVariableValue_default.signature

\* one of the validators that get a seat has a key that is not ed25519
SeatedKeyNotEd25519(next_bps) ==
  \E i \in 1..Min(Len(ListOf(next_bps)), NUM_BLOCK_PRODUCER_SEATS) :
    ListOf(next_bps)[i].public_key.kind # "ED25519"

\* C8: every block record is converted, and the converted block has
\* next_bps, is_active and signatures of exactly NUM_BLOCK_PRODUCER_SEATS
\* entries, the first min(len, seats) the input entries in order (a present
\* approval of another scheme than ed25519 inactive, as section 4.3 of the
\* specification has it), every other seat zero account id, zero key, zero
\* stake, and inactive with the default signature.
C8_FixedCapacity ==
  call = "BlockVariableValue::from" =>
    /\ ret.ok
    /\ BlockShape(arg, ret.val,
                  [account_id |-> Rep(0, 64), public_key |-> Rep(0, 32),
                   stake |-> Rep(0, 8)],
                  FALSE)

\* what the code does instead: the conversion panics when a validator that
\* gets a seat has a key that is not ed25519; when it returns, the lengths,
\* the order and the filled prefix are as stated, the key of an unused seat
\* is the default compressed point, 0x01 followed by 31 zero bytes, and a
\* present approval that is not ed25519 is active with the default signature
C8_PanicsOrFillsWithDefaultKey ==
  call = "BlockVariableValue::from" =>
    /\ ret.ok <=> ~SeatedKeyNotEd25519(arg.next_bps)
    /\ ret.ok =>
         BlockShape(arg, ret.val,
                    [account_id |-> Rep(0, 64),
                     public_key |-> <<1>> \o Rep(0, 31),
                     stake |-> Rep(0, 8)],
                    TRUE)

\* C9: a seat whose approval is present under a scheme other than ed25519
\* is inactive, so is_active[i] holds only for seats with an ed25519
\* signature.
C9_OnlyEd25519Active ==
  call = "BpsApprovalsValue::from" =>
    \A i \in 1..NUM_BLOCK_PRODUCER_SEATS :
      ret.val.is_active[i] => i <= Len(arg) /\ arg[i].kind = "ED25519"

\* what the code does instead: is_active[i] holds for every seat whose
\* approval is present, and a non-ed25519 one carries the default signature
C9_PresentIsActive ==
  call = "BpsApprovalsValue::from" =>
    \A i \in 1..NUM_BLOCK_PRODUCER_SEATS :
      /\ ret.val.is_active[i] <=> (i <= Len(arg) /\ arg[i].kind # "None")
      /\ (i <= Len(arg) /\ arg[i].kind = "SECP256K1") =>
           ret.val.signatures[i] = SignatureVariableValue_default.signature

\* C10: every validator list of a block record is converted to the padded
\* set, and the hash HashBpsInputs computes over the padded set equals the
\* hash of the list taken in the block conversion.
C10_BpsHashMatches ==
  /\ (call = "BlockVariableValue::from" /\ arg.next_bps.some) => ret.ok
  /\ (call = "HashBpsInputs::hint" /\ arg.view.next_bps.some) =>
       /\ ret = Ok(arg.block.next_bps_hash)
       /\ ret = Ok(hash_borsh(arg.view.next_bps.v))

\* what the code does instead: a list with a key that is not ed25519 among
\* its first NUM_BLOCK_PRODUCER_SEATS validators has no padded set, the
\* conversion panics; otherwise the two hashes are equal for a list of at
\* most NUM_BLOCK_PRODUCER_SEATS validators, and a longer list is cut to the
\* seat capacity and the hash is that of its first NUM_BLOCK_PRODUCER_SEATS
\* validators, which is not next_bps_hash
C10_PanicsOrHashesSeatedPrefix ==
  /\ (call = "BlockVariableValue::from" /\ arg.next_bps.some) =>
       (ret.ok <=> ~SeatedKeyNotEd25519(arg.next_bps))
  /\ (call = "HashBpsInputs::hint" /\ arg.view.next_bps.some) =>
       LET list == arg.view.next_bps.v
       IN  /\ Len(list) <= NUM_BLOCK_PRODUCER_SEATS =>
                /\ ret = Ok(arg.block.next_bps_hash)
                /\ ret = Ok(hash_borsh(list))
           /\ Len(list) > NUM_BLOCK_PRODUCER_SEATS =>
                /\ ret = Ok(hash_borsh(SubSeq(list, 1, NUM_BLOCK_PRODUCER_SEATS)))
                /\ ret # Ok(arg.block.next_bps_hash)

----------------------------------------------------------------------------
(* Properties of the endorsement message                                   *)

\* the 64-bit number held little-endian in the eight bytes of s after off
LimbsAt(s, off) == [k \in 1..4 |-> s[off + 2 * k - 1] + 256 * s[off + 2 * k]]

\* n = h + 2 + 2^64 * out, limb by limb with the carries between the limbs
IsPlusTwo(n, h, out) ==
  \E c1 \in 0..1, c2 \in 0..1, c3 \in 0..1 :
    /\ n[1] + 65536 * c1 = h[1] + 2
    /\ n[2] + 65536 * c2 = h[2] + c1
    /\ n[3] + 65536 * c3 = h[3] + c2
    /\ n[4] + 65536 * out = h[4] + c3

\* the height is 2^64 - 2 or 2^64 - 1
IsTopHeight(h) == h[1] >= 65534 /\ h[2] = 65535 /\ h[3] = 65535 /\ h[4] = 65535

\* the 41 bytes are 0x00, then the hash, then some number little-endian
EndorsementFrame(bytes, hash) ==
  /\ Len(bytes) = 41
  /\ bytes[1] = 0
  /\ \A i \in 1..32 : bytes[1 + i] = hash[i]
  /\ \A i \in 34..41 : bytes[i] \in Byte

\* C11 as stated: for every u64 next_block_height the endorsement is exactly
\* 41 bytes, byte 0 is 0x00, bytes 1..33 are next_block_hash and bytes 33..41
\* are the number next_block_height + 2, little-endian.
C11_EndorsementEveryHeight ==
  call = "BuildEndorsement::hint" =>
    /\ ret.ok
    /\ EndorsementFrame(ret.val, arg.next_block_hash)
    /\ IsPlusTwo(LimbsAt(ret.val, 33), arg.next_block_height, 0)

\* C11 amended: the layout holds for every next_block_height up to 2^64 - 3;
\* for the two largest heights the addition overflows, and the hint either
\* panics (overflow checks on) or writes next_block_height + 2 - 2^64.
C11_Endorsement ==
  call = "BuildEndorsement::hint" =>
    IF IsTopHeight(arg.next_block_height)
    THEN IF arg.overflow_checks
         THEN ~ret.ok
         ELSE /\ ret.ok
              /\ EndorsementFrame(ret.val, arg.next_block_hash)
              /\ IsPlusTwo(LimbsAt(ret.val, 33), arg.next_block_height, 1)
    ELSE /\ ret.ok
         /\ EndorsementFrame(ret.val, arg.next_block_hash)
         /\ IsPlusTwo(LimbsAt(ret.val, 33), arg.next_block_height, 0)

\* an endorsement whose + 2 carried through two limbs
C11_Witness ==
  /\ call = "BuildEndorsement::hint"
  /\ ret.ok
  /\ arg.next_block_height = <<65535, 65535, 0, 0>>
  /\ LimbsAt(ret.val, 33) = <<1, 0, 1, 0>>
  /\ ret.val[2] # 0

----------------------------------------------------------------------------
(* Properties of the finality threshold                                    *)

\* C12: the threshold predicate over (approved, total) accepts exactly when
\* approved * 3 > total * 2: with total = 3k + r and approved = 2k + d that is
\* 3d > 2r, so exact two thirds (d = 0, r = 0) and anything less is rejected,
\* up to the largest 128-bit totals; no approved stake is never enough and
\* all of a non-zero stake always is.
C12_StrictSupermajority ==
  call = "stake_is_sufficient" =>
    /\ ret.ok
    /\ \A t \in StakeTriples :
         arg = MkStakeInfo(t[1], t[2], t[3]) =>
           (ret.val <=> 3 * t[3] > 2 * t[2])
    /\ arg.approved = U128_ZERO => ~ret.val
    /\ (arg.approved = arg.total /\ arg.total # U128_ZERO) => ret.val

\* exactly two thirds of the largest 128-bit total is rejected
C12_Witness ==
  /\ call = "stake_is_sufficient"
  /\ arg.total = U128_MAX
  /\ arg.approved = Rep(43690, 8)
  /\ ret = Ok(FALSE)

----------------------------------------------------------------------------
(* Properties of Merkle verification                                       *)

\* the fold written from the last path element back to the leaf
RECURSIVE FoldFromEnd(_, _)
FoldFromEnd(leaf, path) ==
  IF path = <<>>
  THEN leaf
  ELSE LET n    == Len(path)
           below == FoldFromEnd(leaf, SubSeq(path, 1, n - 1))
       IN  IF path[n].direction = "Left"
           THEN <<"sha256", <<path[n].hash, below>>>>
           ELSE <<"sha256", <<below, path[n].hash>>>>

\* verification answers whether the fold of the leaf along the path is the
\* expected root
AnswersTheFold ==
  /\ ret.ok
  /\ ret.val <=> (FoldFromEnd(arg.leaf, arg.path) = arg.root)

\* the changed triple differs from the accepted one only in the direction of
\* element i, whose sibling equals the value folded so far
SameBytesBothSides(t, a, i) ==
  /\ t.path[i].direction # a.path[i].direction
  /\ a.path[i].hash = FoldFromEnd(a.leaf, SubSeq(a.path, 1, i - 1))

\* C13 as stated: verification is true exactly when the fold yields the
\* root, and changing the leaf, any path element or the root of an accepted
\* triple makes it false.
C13_AnyChangeRejected ==
  /\ call \in {"merkle::verify", "merkle::verify changed"} => AnswersTheFold
  /\ call = "merkle::verify changed" => ~ret.val

\* C13 amended: verification is true exactly when the fold yields the root;
\* changing the leaf, the root or a sibling hash of an accepted triple makes
\* it false, and so does changing a direction unless the sibling at that level
\* equals the value folded so far (both orders then hash the same bytes).
C13_MerkleVerification ==
  /\ call \in {"merkle::verify", "merkle::verify changed"} => AnswersTheFold
  /\ call = "merkle::verify changed" =>
       (ret.val <=> \E i \in 1..Len(arg.path) :
                      SameBytesBothSides(arg, arg.accepted, i))

\* a three-level path with both directions was accepted, and the change of
\* one sibling hash in it is rejected
C13_Witness ==
  /\ call = "merkle::verify changed"
  /\ Len(arg.path) = 3
  /\ arg.accepted.root = FoldFromEnd(arg.accepted.leaf, arg.accepted.path)
  /\ arg.accepted.path[1].direction # arg.accepted.path[2].direction
  /\ arg.path[2].hash # arg.accepted.path[2].hash
  /\ ret = Ok(FALSE)

----------------------------------------------------------------------------
(* Properties of the erasure coder                                         *)

\* p is a prefix of s
IsPrefix(p, s) == Len(p) <= Len(s) /\ \A i \in 1..Len(p) : s[i] = p[i]

\* the slots (from 0) of a shard set that hold a shard
PresentSet(self) == { i - 1 : i \in { j \in 1..Len(self.shards) : self.shards[j].some } }

\* no shard of the set was dropped since it was encoded
Unmodified(self) ==
  /\ Len(self.shards) = self.VALIDATORS
  /\ PresentSet(self) = 0..(self.VALIDATORS - 1)

\* C14: for every payload and shard count for which encodify succeeds,
\* recover on the unmodified result succeeds and the bytes it returns have
\* the payload as a prefix (padding may follow).
C14_EncodeRecoverRoundTrip ==
  (call = "Erasure::recover" /\ Unmodified(arg.self)) =>
    /\ ret.val.out.ok
    /\ IsPrefix(arg.data, ret.val.out.val)

\* "hello" in four shards comes back followed by padding
C14_Witness ==
  /\ call = "Erasure::recover"
  /\ arg.VALIDATORS = 4
  /\ arg.data = Hello
  /\ Unmodified(arg.self)
  /\ ret.val.out.ok
  /\ Len(ret.val.out.val) > Len(arg.data)

\* C15: after a payload is encoded into 8 shards and the shards at slots
\* 0, 1, 2, 5, 6 and 7 are removed, recover still succeeds and returns bytes
\* with the payload as a prefix.
C15_RecoverFromTwoOfEight ==
  (/\ call = "Erasure::recover"
   /\ arg.VALIDATORS = 8
   /\ PresentSet(arg.self) = {3, 4}) =>
    /\ ret.val.out.ok
    /\ IsPrefix(arg.data, ret.val.out.val)

\* the 40-byte payload recovered from slots 3 and 4 alone
C15_Witness ==
  /\ call = "Erasure::recover"
  /\ arg.VALIDATORS = 8
  /\ arg.data = He1lo
  /\ PresentSet(arg.self) = {3, 4}
  /\ ret.val.out = Ok(He1lo)

\* C16: merklizing the 8-shard encoding of the 40-byte payload gives a path
\* collection whose size, number of paths times the per-path size, is below
\* 3000 bytes and below payload_len * 16 = 640 bytes.
C16_PathsAreCompact ==
  (/\ call = "Erasure::merklize"
   /\ arg.VALIDATORS = 8
   /\ arg.data = He1lo
   /\ Unmodified(arg.self)) =>
    /\ size_of_val(ret.val.out.paths) < 3000
    /\ size_of_val(ret.val.out.paths) < Len(arg.data) * 2 * 8

\* the bytes of the present shards from the first slot to the last
RECURSIVE StreamOf(_)
StreamOf(shards) ==
  IF shards = <<>>
  THEN <<>>
  ELSE LET n == Len(shards)
       IN  StreamOf(SubSeq(shards, 1, n - 1))
             \o (IF shards[n].some THEN shards[n].v ELSE <<>>)

\* C17: merklize commits to the concatenation of the present shards in
\* increasing slot order, missing slots contributing nothing: there is one
\* path per element of that byte stream, path i leads from the hash of
\* element i to the one root, and the shard set is the same afterwards.
C17_MerklizeCommitsToPresentShards ==
  call = "Erasure::merklize" =>
    LET stream == StreamOf(arg.self.shards)
        out    == ret.val.out
    IN  /\ Len(out.paths) = Len(stream)
        /\ \A i \in 1..Len(stream) :
             FoldFromEnd(<<"sha256", <<stream[i]>>>>, out.paths[i]) = out.root
        /\ stream = <<>> => out.root = Rep(0, 32)
        /\ ret.val.self = arg.self

\* a shard set with a hole between two present shards was merklized
C17_Witness ==
  /\ call = "Erasure::merklize"
  /\ arg.VALIDATORS = 4
  /\ arg.data = Hello
  /\ PresentSet(arg.self) = {0, 2, 3}
  /\ Len(ret.val.out.paths) = 12
  /\ ret.val.out.paths[5][1].hash = <<"sha256", <<arg.self.shards[3].v[2]>>>>

----------------------------------------------------------------------------
(* Properties of the synced state                                          *)

\* C18: every converted Synced has next_bps of exactly
\* NUM_BLOCK_PRODUCER_SEATS entries: without next_bps all of them are default
\* seats and the epoch hash is the zero hash; with a list of fewer or more
\* validators the list is still padded or cut to the seat count.
C18_SyncedFixedCapacity ==
  (call = "SyncedVariableValue::from" /\ ret.ok) =>
    /\ Len(ret.val.next_bps) = NUM_BLOCK_PRODUCER_SEATS
    /\ ~arg.next_bps.some =>
         /\ ret.val.next_bps_epoch = Rep(0, 32)
         /\ \A i \in 1..NUM_BLOCK_PRODUCER_SEATS :
              ret.val.next_bps[i] = ValidatorStakeVariableValue_default

\* what the conversion does: without next_bps the seats are all default and
\* the epoch hash is zero; with next_bps the value has as many entries as the
\* list, whatever the seat count
C18_SyncedKeepsListLength ==
  (call = "SyncedVariableValue::from" /\ ret.ok) =>
    IF arg.next_bps.some
    THEN /\ Len(ret.val.next_bps) = Len(arg.next_bps.v[2])
         /\ ret.val.next_bps_epoch = arg.next_bps.v[1]
    ELSE /\ Len(ret.val.next_bps) = NUM_BLOCK_PRODUCER_SEATS
         /\ ret.val.next_bps_epoch = Rep(0, 32)
         /\ \A i \in 1..NUM_BLOCK_PRODUCER_SEATS :
              ret.val.next_bps[i] = ValidatorStakeVariableValue_default

----------------------------------------------------------------------------
(* Properties of the transaction or receipt id encoding                    *)

\* the flag byte of a transaction is 1, of a receipt 0
FlagOf(is_transaction) == IF is_transaction THEN 1 ELSE 0

\* C19: encode_value yields 1 + 32 + MAX_LEN bytes, the flag byte (1 for a
\* transaction, 0 for a receipt), the id and the padded account;
\* decode_value of those bytes gives the value back; decode_value fails on
\* every other length; and the in-circuit encode and decode write and read
\* the flag byte as the value encode and decode do.
C19_WireRoundTrip ==
  /\ call = "TransactionOrReceiptIdVariable::encode_value" =>
       /\ ret.ok
       /\ Len(ret.val) = 1 + 32 + MAX_LEN
       /\ ret.val[1] = FlagOf(arg.is_transaction)
       /\ \A i \in 1..32 : ret.val[1 + i] = arg.id[i]
       /\ \A i \in 1..MAX_LEN : ret.val[33 + i] = arg.account[i]
  /\ call = "decode_value(encode_value)" => ret = Ok(arg.value)
  /\ call = "TransactionOrReceiptIdVariable::decode_value" =>
       /\ ret.ok <=> Len(arg) = 1 + 32 + MAX_LEN
       /\ ret.ok => (ret.val.is_transaction <=> arg[1] # 0)
  /\ call = "TransactionOrReceiptIdVariable::encode" =>
       /\ ret.ok
       /\ ret.val[1] = FlagOf(arg.is_transaction)
  /\ call = "TransactionOrReceiptIdVariable::decode" /\ ret.ok =>
       (ret.val.is_transaction <=> arg[1] # 0)

\* a receipt went through encode_value and decode_value
C19_Witness ==
  /\ call = "decode_value(encode_value)"
  /\ ~arg.value.is_transaction
  /\ arg.bytes[1] = 0
  /\ arg.bytes[2] # 0
  /\ arg.bytes[34] = 97
  /\ arg.bytes[97] = ACCOUNT_ID_PADDING_BYTE
  /\ ret.ok
  /\ ~ret.val.is_transaction

====
